---- MODULE Spec2Model ----
(***************************************************************************)
(* Model of threadables.py: one enqueuer thread feeding a bounded Queue    *)
(* from an iterator, and worker threads consuming it until they dequeue a  *)
(* sentinel (None) or observe the kill event.                              *)
(***************************************************************************)
EXTENDS Integers, Sequences, FiniteSets, TLC

\* ---- bounds of the model ----
MaxLen == 2        \* longest source sequence
MaxWorkers == 2    \* most worker threads started; n_workers goes one beyond
MaxLimit == 1      \* largest n (item limit) handed to the enqueuer
MaxSize == 2       \* largest Queue maxsize

\* ---- values ----
None == 0          \* the sentinel the enqueuer puts for the workers
NoLimit == 0 - 1   \* n=None of enqueuer(): no item limit
Items == 1..MaxLen

VARIABLES
    source,            \* the sequence the iterator was built from (never changes)
    filter_func,       \* the set of items filter_func accepts (never changes)
    n_workers,         \* enqueuer argument
    n,                 \* enqueuer argument, NoLimit for None
    maxsize,           \* capacity of the Queue
    exit_func,         \* TRUE iff the workers were given an exit_func
    iterator,          \* what the iterator has not yielded yet
    file,              \* enqueuer local: the current element
    i,                 \* enqueuer local: number of items enqueued
    sentinels,         \* enqueuer local: iterations done of the sentinel loop
    epc,               \* enqueuer position
    queue,             \* the Queue's contents, head first
    unfinished_tasks,  \* the Queue's unfinished-task counter
    kill_event,        \* the threading.Event
    result,            \* worker local: the dequeued value
    wpc,               \* worker position
    put_log,           \* history: everything the enqueuer has put, in order
    got_log,           \* history: everything each worker has dequeued, in order
    processed,         \* history: the arguments of each worker's func calls, in order
    exit_calls,        \* history: number of exit_func calls of each worker
    kill_at_start,     \* history: kill_event was set when the enqueuer started
    put_after_kill,    \* history: payload puts done while kill_event was set
    put_timed_out,     \* history: some queue.put(file, timeout=10) has raised Full
    got_after_kill,    \* history: dequeues of each worker done while kill_event was set
    func_failed        \* history: func has raised in this worker

params == <<source, filter_func, n_workers, n, maxsize, exit_func>>
evars == <<iterator, file, i, sentinels, epc>>
wvars == <<result, wpc>>
ehist == <<put_log, kill_at_start, put_after_kill, put_timed_out>>
whist == <<got_log, processed, exit_calls, got_after_kill, func_failed>>
hist == <<ehist, whist>>
vars == <<params, evars, wvars, queue, unfinished_tasks, kill_event, hist>>

Workers == DOMAIN wpc

\* The sources: <<1, ..., m>> for every length m up to MaxLen.  The code looks
\* at an element only through filter_func and "is None", so a source with
\* repeated values behaves as the source with its elements renamed apart.
Sources == {[k \in 1..m |-> k] : m \in 0..MaxLen}

RECURSIVE Filter(_, _)
\* the subsequence of s whose elements are in P
Filter(s, P) ==
    IF s = <<>> THEN <<>>
    ELSE IF Head(s) \in P THEN <<Head(s)>> \o Filter(Tail(s), P)
    ELSE Filter(Tail(s), P)

\* number of positions of s holding x
Count(s, x) == Cardinality({k \in DOMAIN s : s[k] = x})

\* number of payload (non-sentinel) entries of s
Payloads(s) == Cardinality({k \in DOMAIN s : s[k] # None})

Min(a, b) == IF a <= b THEN a ELSE b

Init ==
    /\ source \in Sources
    /\ filter_func \in SUBSET (DOMAIN source)
    /\ n_workers \in 0..(MaxWorkers + 1)
    /\ n \in {NoLimit} \cup (0..MaxLimit)
    /\ maxsize \in 1..MaxSize
    /\ exit_func = TRUE      \* every worker is given an exit_func
    /\ iterator = source
    /\ file = None
    /\ i = 0
    /\ sentinels = 0
    /\ epc = "start"
    /\ queue = <<>>
    /\ unfinished_tasks = 0
    /\ kill_event = FALSE
    /\ \E w \in 1..MaxWorkers :
          /\ wpc = [x \in 1..w |-> "check"]
          /\ result = [x \in 1..w |-> None]
          /\ got_log = [x \in 1..w |-> <<>>]
          /\ processed = [x \in 1..w |-> <<>>]
          /\ exit_calls = [x \in 1..w |-> 0]
          /\ got_after_kill = [x \in 1..w |-> 0]
          /\ func_failed = [x \in 1..w |-> FALSE]
    /\ put_log = <<>>
    /\ kill_at_start = FALSE
    /\ put_after_kill = 0
    /\ put_timed_out = FALSE

\* ---- the Queue ----
Full == Len(queue) >= maxsize
Empty == queue = <<>>

\* ---- enqueuer ----

\* file = next(iterator); on StopIteration go to pc `onStop`
NextFile(onStop) ==
    IF iterator = <<>>
    THEN /\ epc' = onStop
         /\ UNCHANGED <<iterator, file>>
    ELSE /\ file' = Head(iterator)
         /\ iterator' = Tail(iterator)
         /\ epc' = "loop"

\* as EnqueuerStart, but the element read before the loop is thrown away
EnqueuerStartDropsFirst ==
    /\ epc = "start"
    /\ IF Len(iterator) < 2
       THEN epc' = "sentinels" /\ iterator' = <<>> /\ UNCHANGED file
       ELSE epc' = "loop" /\ file' = iterator[2] /\ iterator' = Tail(Tail(iterator))
    /\ kill_at_start' = kill_event
    /\ UNCHANGED <<params, i, sentinels, wvars, queue, unfinished_tasks, kill_event,
                   put_log, put_after_kill, put_timed_out, whist>>

\* as EnqueuerStart, but StopIteration on the first next() ends the source
\* loop as it does inside the loop
EnqueuerStartCleanOnEmpty ==
    /\ epc = "start"
    /\ NextFile("sentinels")
    /\ kill_at_start' = kill_event
    /\ UNCHANGED <<params, i, sentinels, wvars, queue, unfinished_tasks, kill_event,
                   put_log, put_after_kill, put_timed_out, whist>>

\* i = 0; iterator = iter(iterator); file = next(iterator)
\* an empty iterator raises StopIteration out of the function
EnqueuerStart ==
    /\ epc = "start"
    /\ NextFile("failed")
    /\ kill_at_start' = kill_event
    /\ UNCHANGED <<params, i, sentinels, wvars, queue, unfinished_tasks, kill_event,
                   put_log, put_after_kill, put_timed_out, whist>>

\* while True: if filter_func(file): if kill_event.is_set(): return
EnqueuerKilled ==
    /\ epc = "loop"
    /\ file \in filter_func
    /\ kill_event
    /\ epc' = "killed"
    /\ UNCHANGED <<params, iterator, file, i, sentinels, wvars, queue,
                   unfinished_tasks, kill_event, hist>>

\* filter_func(file) holds and the kill event is not set: go on to queue.put
EnqueuerAccept ==
    /\ epc = "loop"
    /\ file \in filter_func
    /\ ~kill_event
    /\ epc' = "put"
    /\ UNCHANGED <<params, iterator, file, i, sentinels, wvars, queue,
                   unfinished_tasks, kill_event, hist>>

\* as EnqueuerReject, but kill_event is tested for every element
EnqueuerRejectChecksKill ==
    /\ epc = "loop"
    /\ file \notin filter_func
    /\ IF kill_event
       THEN epc' = "killed" /\ UNCHANGED <<iterator, file>>
       ELSE NextFile("sentinels")
    /\ UNCHANGED <<params, i, sentinels, wvars, queue, unfinished_tasks,
                   kill_event, hist>>

\* filter_func(file) is false: file = next(iterator), break on StopIteration
EnqueuerReject ==
    /\ epc = "loop"
    /\ file \notin filter_func
    /\ NextFile("sentinels")
    /\ UNCHANGED <<params, i, sentinels, wvars, queue, unfinished_tasks,
                   kill_event, hist>>

\* queue.put(file, timeout=10) succeeds; i += 1; break at the limit,
\* else file = next(iterator), break on StopIteration
EnqueuerPut ==
    /\ epc = "put"
    /\ ~Full
    /\ queue' = Append(queue, file)
    /\ unfinished_tasks' = unfinished_tasks + 1
    /\ i' = i + 1
    /\ put_log' = Append(put_log, file)
    /\ put_after_kill' = IF kill_event THEN put_after_kill + 1 ELSE put_after_kill
    /\ IF n # NoLimit /\ i' >= n
       THEN /\ epc' = "sentinels"
            /\ UNCHANGED <<iterator, file>>
       ELSE NextFile("sentinels")
    /\ UNCHANGED <<params, sentinels, wvars, kill_event,
                   kill_at_start, put_timed_out, whist>>

\* as EnqueuerPutTimeout, but i is incremented before the put is tried
EnqueuerPutTimeoutCounts ==
    /\ epc = "put"
    /\ Full
    /\ epc' = "loop"
    /\ i' = i + 1
    /\ put_timed_out' = TRUE
    /\ UNCHANGED <<params, iterator, file, sentinels, wvars, queue,
                   unfinished_tasks, kill_event, put_log, kill_at_start,
                   put_after_kill, whist>>

\* as EnqueuerPutTimeout, but Full is swallowed and the loop moves on to
\* the next element
EnqueuerPutTimeoutSkips ==
    /\ epc = "put"
    /\ Full
    /\ NextFile("sentinels")
    /\ put_timed_out' = TRUE
    /\ UNCHANGED <<params, i, sentinels, wvars, queue, unfinished_tasks,
                   kill_event, put_log, kill_at_start, put_after_kill, whist>>

\* queue.put(file, timeout=10) raises Full: continue
EnqueuerPutTimeout ==
    /\ epc = "put"
    /\ Full
    /\ epc' = "loop"
    /\ put_timed_out' = TRUE
    /\ UNCHANGED <<params, iterator, file, i, sentinels, wvars, queue,
                   unfinished_tasks, kill_event, put_log, kill_at_start,
                   put_after_kill, whist>>

\* as EnqueuerSentinel, but the loop runs over range(n_workers - 1)
EnqueuerSentinelOneFewer ==
    /\ epc = "sentinels"
    /\ sentinels < n_workers
    /\ IF sentinels < n_workers - 1
       THEN /\ ~Full
            /\ queue' = Append(queue, None)
            /\ unfinished_tasks' = unfinished_tasks + 1
            /\ put_log' = Append(put_log, None)
       ELSE UNCHANGED <<queue, unfinished_tasks, put_log>>
    /\ sentinels' = sentinels + 1
    /\ UNCHANGED <<params, iterator, file, i, epc, wvars, kill_event,
                   kill_at_start, put_after_kill, put_timed_out, whist>>

\* as EnqueuerSentinel, but the loop runs over range(n_workers + 1)
EnqueuerSentinelOneMore ==
    /\ epc = "sentinels"
    /\ sentinels <= n_workers
    /\ ~Full
    /\ queue' = Append(queue, None)
    /\ unfinished_tasks' = unfinished_tasks + 1
    /\ sentinels' = sentinels + 1
    /\ put_log' = Append(put_log, None)
    /\ UNCHANGED <<params, iterator, file, i, epc, wvars, kill_event,
                   kill_at_start, put_after_kill, put_timed_out, whist>>

\* for _ in range(n_workers): queue.put(None)   (blocks while the queue is full)
EnqueuerSentinel ==
    /\ epc = "sentinels"
    /\ sentinels < n_workers
    /\ ~Full
    /\ queue' = Append(queue, None)
    /\ unfinished_tasks' = unfinished_tasks + 1
    /\ sentinels' = sentinels + 1
    /\ put_log' = Append(put_log, None)
    /\ UNCHANGED <<params, iterator, file, i, epc, wvars, kill_event,
                   kill_at_start, put_after_kill, put_timed_out, whist>>

\* the sentinel loop is over: "Enqueuer exited gracefully"
EnqueuerExit ==
    /\ epc = "sentinels"
    /\ sentinels >= n_workers
    /\ epc' = "done"
    /\ UNCHANGED <<params, iterator, file, i, sentinels, wvars, queue,
                   unfinished_tasks, kill_event, hist>>

enqueuer ==
    \/ EnqueuerStart
    \/ EnqueuerKilled
    \/ EnqueuerAccept
    \/ EnqueuerReject
    \/ EnqueuerPut
    \/ EnqueuerPutTimeout
    \/ EnqueuerSentinel
    \/ EnqueuerExit

\* ---- worker ----

\* as WorkerKilled, but exit_func is called on the way out
WorkerKilledCallsExit(w) ==
    /\ wpc[w] = "check"
    /\ kill_event
    /\ wpc' = [wpc EXCEPT ![w] = "killed"]
    /\ exit_calls' = [exit_calls EXCEPT ![w] = IF exit_func THEN @ + 1 ELSE @]
    /\ UNCHANGED <<params, evars, result, queue, unfinished_tasks, kill_event,
                   ehist, got_log, processed, got_after_kill, func_failed>>

\* while True: if kill_event.is_set(): return
WorkerKilled(w) ==
    /\ wpc[w] = "check"
    /\ kill_event
    /\ wpc' = [wpc EXCEPT ![w] = "killed"]
    /\ UNCHANGED <<params, evars, result, queue, unfinished_tasks, kill_event, hist>>

\* the kill event is not set: go on to queue.get
WorkerCheck(w) ==
    /\ wpc[w] = "check"
    /\ ~kill_event
    /\ wpc' = [wpc EXCEPT ![w] = "get"]
    /\ UNCHANGED <<params, evars, result, queue, unfinished_tasks, kill_event, hist>>

\* as WorkerGet, but the queue hands out its newest entry (a LifoQueue)
WorkerGetLifo(w) ==
    /\ wpc[w] = "get"
    /\ ~Empty
    /\ LET got == queue[Len(queue)] IN
       /\ result' = [result EXCEPT ![w] = got]
       /\ queue' = SubSeq(queue, 1, Len(queue) - 1)
       /\ got_log' = [got_log EXCEPT ![w] = Append(@, got)]
       /\ IF got = None
          THEN /\ exit_calls' = [exit_calls EXCEPT ![w] = IF exit_func THEN @ + 1 ELSE @]
               /\ wpc' = [wpc EXCEPT ![w] = "done"]
          ELSE /\ wpc' = [wpc EXCEPT ![w] = "process"]
               /\ UNCHANGED exit_calls
    /\ got_after_kill' = [got_after_kill EXCEPT ![w] = IF kill_event THEN @ + 1 ELSE @]
    /\ UNCHANGED <<params, evars, unfinished_tasks, kill_event,
                   ehist, processed, func_failed>>

\* as WorkerGet, but queue.task_done() is called for the sentinel too
WorkerGetTaskDoneOnSentinel(w) ==
    /\ wpc[w] = "get"
    /\ ~Empty
    /\ result' = [result EXCEPT ![w] = Head(queue)]
    /\ queue' = Tail(queue)
    /\ got_log' = [got_log EXCEPT ![w] = Append(@, Head(queue))]
    /\ got_after_kill' = [got_after_kill EXCEPT ![w] = IF kill_event THEN @ + 1 ELSE @]
    /\ IF Head(queue) = None
       THEN /\ exit_calls' = [exit_calls EXCEPT ![w] = IF exit_func THEN @ + 1 ELSE @]
            /\ wpc' = [wpc EXCEPT ![w] = "done"]
            /\ unfinished_tasks' = unfinished_tasks - 1
       ELSE /\ wpc' = [wpc EXCEPT ![w] = "process"]
            /\ UNCHANGED <<exit_calls, unfinished_tasks>>
    /\ UNCHANGED <<params, evars, kill_event, ehist, processed, func_failed>>

\* as WorkerGet, but a None result does not leave the loop
WorkerGetKeepsGoing(w) ==
    /\ wpc[w] = "get"
    /\ ~Empty
    /\ result' = [result EXCEPT ![w] = Head(queue)]
    /\ queue' = Tail(queue)
    /\ got_log' = [got_log EXCEPT ![w] = Append(@, Head(queue))]
    /\ got_after_kill' = [got_after_kill EXCEPT ![w] = IF kill_event THEN @ + 1 ELSE @]
    /\ IF Head(queue) = None
       THEN /\ exit_calls' = [exit_calls EXCEPT ![w] = IF exit_func THEN @ + 1 ELSE @]
            /\ wpc' = [wpc EXCEPT ![w] = "check"]
       ELSE /\ wpc' = [wpc EXCEPT ![w] = "process"]
            /\ UNCHANGED exit_calls
    /\ UNCHANGED <<params, evars, unfinished_tasks, kill_event,
                   ehist, processed, func_failed>>

\* result = queue.get(timeout=10) returns; a None result calls exit_func
\* (when given) and breaks
WorkerGet(w) ==
    /\ wpc[w] = "get"
    /\ ~Empty
    /\ result' = [result EXCEPT ![w] = Head(queue)]
    /\ queue' = Tail(queue)
    /\ got_log' = [got_log EXCEPT ![w] = Append(@, Head(queue))]
    /\ got_after_kill' = [got_after_kill EXCEPT ![w] = IF kill_event THEN @ + 1 ELSE @]
    /\ IF Head(queue) = None
       THEN /\ exit_calls' = [exit_calls EXCEPT ![w] = IF exit_func THEN @ + 1 ELSE @]
            /\ wpc' = [wpc EXCEPT ![w] = "done"]
       ELSE /\ wpc' = [wpc EXCEPT ![w] = "process"]
            /\ UNCHANGED exit_calls
    /\ UNCHANGED <<params, evars, unfinished_tasks, kill_event,
                   ehist, processed, func_failed>>

\* as WorkerGetTimeout, but Empty retries queue.get without going back to
\* the kill_event test
WorkerGetTimeoutNoRecheck(w) ==
    /\ wpc[w] = "get"
    /\ Empty
    /\ wpc' = [wpc EXCEPT ![w] = "get"]
    /\ UNCHANGED <<params, evars, result, queue, unfinished_tasks, kill_event, hist>>

\* queue.get(timeout=10) raises Empty: continue
WorkerGetTimeout(w) ==
    /\ wpc[w] = "get"
    /\ Empty
    /\ wpc' = [wpc EXCEPT ![w] = "check"]
    /\ UNCHANGED <<params, evars, result, queue, unfinished_tasks, kill_event, hist>>

\* as WorkerProcess, but the loop goes straight back to queue.get without
\* looking at the kill event
WorkerProcessSkipsCheck(w) ==
    /\ wpc[w] = "process"
    /\ processed' = [processed EXCEPT ![w] = Append(@, result[w])]
    /\ unfinished_tasks' = unfinished_tasks - 1
    /\ wpc' = [wpc EXCEPT ![w] = "get"]
    /\ UNCHANGED <<params, evars, result, queue, kill_event,
                   ehist, got_log, exit_calls, got_after_kill, func_failed>>

\* func(result) returns; queue.task_done()
WorkerProcess(w) ==
    /\ wpc[w] = "process"
    /\ processed' = [processed EXCEPT ![w] = Append(@, result[w])]
    /\ unfinished_tasks' = unfinished_tasks - 1
    /\ wpc' = [wpc EXCEPT ![w] = "check"]
    /\ UNCHANGED <<params, evars, result, queue, kill_event,
                   ehist, got_log, exit_calls, got_after_kill, func_failed>>

\* as WorkerProcessFails, but the exception is swallowed and the loop goes on
WorkerProcessFailsSwallowed(w) ==
    /\ wpc[w] = "process"
    /\ processed' = [processed EXCEPT ![w] = Append(@, result[w])]
    /\ func_failed' = [func_failed EXCEPT ![w] = TRUE]
    /\ wpc' = [wpc EXCEPT ![w] = "check"]
    /\ UNCHANGED <<params, evars, result, queue, unfinished_tasks, kill_event,
                   ehist, got_log, exit_calls, got_after_kill>>

\* func(result) raises: the exception leaves worker()
WorkerProcessFails(w) ==
    /\ wpc[w] = "process"
    /\ processed' = [processed EXCEPT ![w] = Append(@, result[w])]
    /\ func_failed' = [func_failed EXCEPT ![w] = TRUE]
    /\ wpc' = [wpc EXCEPT ![w] = "failed"]
    /\ UNCHANGED <<params, evars, result, queue, unfinished_tasks, kill_event,
                   ehist, got_log, exit_calls, got_after_kill>>

worker(w) ==
    \/ WorkerKilled(w)
    \/ WorkerCheck(w)
    \/ WorkerGet(w)
    \/ WorkerGetTimeout(w)
    \/ WorkerProcess(w)
    \/ WorkerProcessFails(w)

\* ---- the owner of the kill event ----

\* kill_event.set()
Kill ==
    /\ ~kill_event
    /\ kill_event' = TRUE
    /\ UNCHANGED <<params, evars, wvars, queue, unfinished_tasks, hist>>

Next ==
    \/ enqueuer
    \/ \E w \in Workers : worker(w)
    \/ Kill

Spec == Init /\ [][Next]_vars

\* threads get scheduled; timeouts expire
FairSpec ==
    /\ Spec
    /\ WF_vars(enqueuer)
    /\ \A w \in 1..MaxWorkers : WF_vars(w \in Workers /\ worker(w))

\* ---- runs in which kill_event is never set (or is None) and func always
\* ---- returns: the same steps without the kill returns and the func failure

enqueuerNoKill ==
    \/ EnqueuerStart
    \/ EnqueuerAccept
    \/ EnqueuerReject
    \/ EnqueuerPut
    \/ EnqueuerPutTimeout
    \/ EnqueuerSentinel
    \/ EnqueuerExit

workerNoKill(w) ==
    \/ WorkerCheck(w)
    \/ WorkerGet(w)
    \/ WorkerGetTimeout(w)
    \/ WorkerProcess(w)

NextNoKill ==
    \/ enqueuerNoKill
    \/ \E w \in Workers : workerNoKill(w)

NoKillSpec ==
    /\ Init
    /\ [][NextNoKill]_vars
    /\ WF_vars(enqueuerNoKill)
    /\ \A w \in 1..MaxWorkers : WF_vars(w \in Workers /\ workerNoKill(w))

TypeOK ==
    /\ source \in Sources
    /\ epc \in {"start", "loop", "put", "sentinels", "done", "killed", "failed"}
    /\ \A w \in Workers : wpc[w] \in {"check", "get", "process", "done", "killed", "failed"}
    /\ Len(queue) <= maxsize
    /\ unfinished_tasks >= 0

\* ---- properties ----

Stopped == {"done", "killed", "failed"}

\* what filter_func lets through, in source order
Accepted == Filter(source, filter_func)

RECURSIVE SumOver(_, _)
\* the sum of f[w] over w in S
SumOver(f, S) ==
    IF S = {} THEN 0
    ELSE LET w == CHOOSE x \in S : TRUE IN f[w] + SumOver(f, S \ {w})

\* number of func calls, over all workers, whose argument was x
TimesProcessed(x) == SumOver([w \in Workers |-> Count(processed[w], x)], Workers)

IsPrefix(s, t) == Len(s) <= Len(t) /\ SubSeq(t, 1, Len(s)) = s

NoFailure == \A w \in Workers : wpc[w] # "failed"

\* C1: with n_workers equal to the number of workers started, no limit, no
\* kill and no func failure, once every worker has stopped each item was
\* passed to func exactly as many times as the source holds it accepted.
C1_NoLossNoDuplication ==
    ( /\ n_workers = Cardinality(Workers)
      /\ n = NoLimit
      /\ ~kill_event
      /\ NoFailure
      /\ \A w \in Workers : wpc[w] \in Stopped )
    => \A x \in Items :
          TimesProcessed(x) = IF x \in filter_func THEN Count(source, x) ELSE 0

C1_Witness ==
    /\ n_workers = Cardinality(Workers)
    /\ n = NoLimit
    /\ ~kill_event
    /\ Cardinality(Workers) = 2
    /\ \A w \in Workers : wpc[w] = "done" /\ Len(processed[w]) = 1

\* C2: with one worker, no limit and no kill, the arguments of its func
\* calls are always a prefix of the accepted subsequence of the source, and
\* are that whole subsequence once the worker has left on a sentinel.
C2_SingleWorkerFifo ==
    (Cardinality(Workers) = 1 /\ n = NoLimit /\ ~kill_event)
    => \A w \in Workers :
          /\ IsPrefix(processed[w], Accepted)
          /\ wpc[w] = "done" => processed[w] = Accepted

C2_Witness ==
    /\ Cardinality(Workers) = 1
    /\ n = NoLimit
    /\ ~kill_event
    /\ put_timed_out
    /\ \A w \in Workers : wpc[w] = "done" /\ processed[w] = <<1, 2>>
\* every worker has left on a sentinel, having called exit_func once
AllGraceful == \A w \in Workers : wpc[w] = "done" /\ exit_calls[w] = 1

\* C3: when n_workers equals the number of workers started, the source runs
\* out (no limit), the kill event is never set and func never raises, then
\* eventually every worker has exited gracefully, having called its
\* exit_func exactly once -- for every source, the empty one included.
C3_AllWorkersExitGracefully ==
    ( /\ n_workers = Cardinality(Workers)
      /\ n = NoLimit
      /\ exit_func
      /\ [](~kill_event /\ NoFailure) )
    => <>AllGraceful
\* number of sentinels the enqueuer has put
SentinelsPut == Count(put_log, None)

\* number of payload items put before the first sentinel
PayloadsBeforeSentinel ==
    Cardinality({k \in DOMAIN put_log :
                    put_log[k] # None /\ \A j \in 1..k : put_log[j] # None})

\* C4: with a limit n >= 0 and no kill, when the enqueuer turns to the
\* sentinels it has put exactly min(n, number of accepted elements) payload items.
C4_LimitCount ==
    (n # NoLimit /\ ~kill_event /\ epc \in {"sentinels", "done"})
    => PayloadsBeforeSentinel = Min(n, Len(Accepted))

\* C5: the enqueuer never has put more than n_workers sentinels (none when
\* n_workers = 0); it has put exactly n_workers when it exits gracefully
\* and none when it returns on the kill event.
C5_SentinelCount ==
    LET put == SentinelsPut IN
    /\ put <= n_workers
    /\ epc = "done" => put = n_workers
    /\ epc = "killed" => put = 0

C5_Witness ==
    /\ epc = "done"
    /\ n_workers = 2
    /\ SentinelsPut = 2
    /\ n = 1
    /\ Len(Accepted) = 2

\* C6: when the kill event was set before the enqueuer started, the
\* enqueuer ends by returning on the kill event, having put nothing at all.
C6_KilledBeforeStart ==
    (kill_at_start /\ epc \in Stopped) => (epc = "killed" /\ put_log = <<>>)

\* C7: a worker calls exit_func at most once: once when it leaves on a
\* sentinel, never when it returns on the kill event.
C7_ExitFuncOnce ==
    \A w \in Workers :
        /\ exit_calls[w] <= 1
        /\ (wpc[w] = "done" /\ exit_func) => exit_calls[w] = 1
        /\ wpc[w] = "killed" => exit_calls[w] = 0

C7_Witness ==
    /\ exit_func
    /\ \E w \in Workers : wpc[w] = "done" /\ exit_calls[w] = 1
    /\ \E w \in Workers : wpc[w] = "killed" /\ exit_calls[w] = 0 /\ processed[w] # <<>>

\* C8: a worker that has dequeued a sentinel takes no further step (no func
\* call, no dequeue); no worker dequeues two sentinels, a sentinel is never
\* an argument of func, and every sentinel put is either still in the queue
\* or was dequeued once (none is put back).
C8_SentinelStopsWorker ==
    /\ [](\A w \in Workers :
            /\ Count(got_log[w], None) <= 1
            /\ Count(processed[w], None) = 0)
    /\ [](SentinelsPut = Count(queue, None)
              + SumOver([w \in Workers |-> Count(got_log[w], None)], Workers))
    /\ [][\A w \in Workers :
            Count(got_log[w], None) >= 1
            => /\ wpc'[w] = wpc[w]
               /\ got_log'[w] = got_log[w]
               /\ processed'[w] = processed[w]]_vars

C8_Witness ==
    /\ \E w \in Workers : wpc[w] = "done" /\ Len(got_log[w]) = 2
    /\ \E w \in Workers : wpc[w] = "process"
    /\ queue # <<>>

\* C9: a worker in which func has raised is in the failed state, has not
\* called exit_func and takes no further step (no dequeue, no second call
\* of func); the failing step changes nothing of the enqueuer, the queue,
\* the kill event or the other workers.
C9_FailedWorkerStops ==
    /\ [](\A w \in Workers :
            func_failed[w] => wpc[w] = "failed" /\ exit_calls[w] = 0)
    /\ [][\A w \in Workers :
            /\ func_failed[w]
               => /\ wpc'[w] = wpc[w]
                  /\ got_log'[w] = got_log[w]
                  /\ processed'[w] = processed[w]
            /\ (~func_failed[w] /\ func_failed'[w])
               => /\ UNCHANGED <<evars, queue, unfinished_tasks, kill_event, ehist>>
                  /\ \A v \in Workers \ {w} :
                        /\ wpc'[v] = wpc[v]
                        /\ result'[v] = result[v]
                        /\ got_log'[v] = got_log[v]
                        /\ processed'[v] = processed[v]]_vars

C9_Witness ==
    /\ \E w \in Workers : func_failed[w] /\ got_log[w] = <<1>>
    /\ \E w \in Workers : wpc[w] = "done" /\ got_log[w] = <<2, None>>
    /\ epc = "done"

\* C10: while the kill event is set each worker dequeues at most once and
\* the enqueuer puts at most one payload item; every payload item a worker
\* has dequeued has been passed to func or is being passed to it.
C10_AfterKill ==
    /\ put_after_kill <= 1
    /\ \A w \in Workers :
          /\ got_after_kill[w] <= 1
          /\ Payloads(got_log[w])
                = Len(processed[w]) + (IF wpc[w] = "process" THEN 1 ELSE 0)

C10_Witness ==
    /\ kill_event
    /\ put_after_kill = 1
    /\ epc = "killed"
    /\ \E w \in Workers :
          /\ got_after_kill[w] = 1
          /\ wpc[w] = "killed"
          /\ processed[w] = got_log[w]
          /\ processed[w] # <<>>
\* C11: once the kill event is set the enqueuer eventually stops (returns or
\* dies), whatever the queue holds and whatever the workers have done.
C11_EnqueuerStopsAfterKill == kill_event ~> (epc \in Stopped)

\* C12: once the kill event is set every worker eventually stops (a func
\* call in progress returns or raises, by fairness of the worker's steps).
C12_WorkersStopAfterKill == kill_event ~> (\A w \in Workers : wpc[w] \in Stopped)

C12_Witness ==
    /\ kill_event
    /\ queue = <<>>
    /\ put_log = <<>>
    /\ \A w \in Workers : wpc[w] = "killed" /\ got_log[w] = <<>>
    /\ Cardinality(Workers) = 2
\* the payload items the enqueuer has put, in order
PayloadsPut == Filter(put_log, Items)

\* C13: a queue.put(file, timeout=10) that raises Full leaves the current
\* element, the iterator, the count i and the queue as they were and leads
\* back to the kill_event test; so the payload items put are always a prefix
\* of the accepted subsequence (none skipped, none put twice) and i counts
\* each of them once.
C13_FullRetriesSameElement ==
    /\ [](IsPrefix(PayloadsPut, Accepted) /\ i = Len(PayloadsPut))
    /\ [][(epc = "put" /\ Full /\ epc' # epc)
            => /\ epc' = "loop"
               /\ file' = file
               /\ iterator' = iterator
               /\ i' = i
               /\ queue' = queue
               /\ put_log' = put_log]_vars

C13_Witness ==
    /\ put_timed_out
    /\ epc = "done"
    /\ maxsize = 1
    /\ PayloadsPut = <<1, 2>>
    /\ i = 2

\* C14: with an empty source the enqueuer dies on StopIteration before its
\* loop: it is never anywhere but at its start or failed, it puts nothing,
\* and a worker never dequeues anything and leaves only on the kill event.
C14_EmptySourceFails ==
    source = <<>>
    => /\ epc \in {"start", "failed"}
       /\ put_log = <<>>
       /\ queue = <<>>
       /\ \A w \in Workers :
             /\ got_log[w] = <<>>
             /\ wpc[w] \in {"check", "get", "killed"}
             /\ wpc[w] = "killed" => kill_event

C14_Witness ==
    /\ source = <<>>
    /\ epc = "failed"
    /\ n_workers = 2
    /\ \E w \in Workers : wpc[w] = "killed"
    /\ \E w \in Workers : wpc[w] = "get"
\* the enqueuer is in its source loop at a rejected element and the iterator
\* holds no accepted element any more
NoMoreAccepted ==
    /\ epc = "loop"
    /\ file \notin filter_func
    /\ \A k \in DOMAIN iterator : iterator[k] \notin filter_func

FinishedWithSpareSentinels ==
    /\ epc = "done"
    /\ AllGraceful
    /\ queue = [k \in 1..(n_workers - Cardinality(Workers)) |-> None]

\* C16 as claimed: with fewer workers started than n_workers, a non-empty
\* source, no kill and no func failure, for every maxsize all workers
\* exit gracefully, the enqueuer exits gracefully and n_workers - w sentinels
\* stay in the queue.
C16_FewerWorkersAnyMaxsize ==
    (Cardinality(Workers) < n_workers /\ source # <<>>)
    => <>FinishedWithSpareSentinels

\* C16 amended: the same when the n_workers - w spare sentinels fit in the
\* queue (n_workers - w <= maxsize).
C16_FewerWorkers ==
    ( /\ Cardinality(Workers) < n_workers
      /\ source # <<>>
      /\ n_workers - Cardinality(Workers) <= maxsize )
    => <>[]FinishedWithSpareSentinels

C16_Witness ==
    /\ FinishedWithSpareSentinels
    /\ Cardinality(Workers) = 1
    /\ n_workers = 3
    /\ maxsize = 2
    /\ \A w \in Workers : processed[w] = <<1, 2>>
\* the workers that have left on a sentinel
Graceful == {w \in Workers : wpc[w] = "done"}

\* C17: with more workers started than n_workers and no kill, eventually
\* exactly n_workers workers have exited gracefully and from then on the
\* others keep polling the queue (they are never stopped) -- for every source.
C17_MoreWorkersLeak ==
    Cardinality(Workers) > n_workers
    => <>[](/\ Cardinality(Graceful) = n_workers
            /\ \A w \in Workers \ Graceful : wpc[w] \in {"check", "get"})

\* C18: with n_workers equal to the number of workers started, a non-empty
\* source, no kill and no func failure, for every maxsize the enqueuer and
\* all workers end up stopped for good (graceful exits), the queue is empty,
\* each worker has dequeued exactly one sentinel, and every item put was
\* dequeued.
C18_NoDeadlock ==
    (Cardinality(Workers) = n_workers /\ source # <<>>)
    => <>[](/\ epc = "done"
            /\ AllGraceful
            /\ queue = <<>>
            /\ \A w \in Workers : Count(got_log[w], None) = 1
            /\ Len(put_log) = SumOver([w \in Workers |-> Len(got_log[w])], Workers))

C18_Witness ==
    /\ Cardinality(Workers) = 2
    /\ n_workers = 2
    /\ maxsize = 1
    /\ put_timed_out
    /\ epc = "done"
    /\ AllGraceful
    /\ queue = <<>>
    /\ put_log = <<1, 2, None, None>>
\* in s no payload item comes after a sentinel
SentinelsLast(s) ==
    \A j, k \in DOMAIN s : (j < k /\ s[j] = None) => s[k] = None

\* C19: the enqueuer never puts a payload item after a sentinel, and in the
\* queue every sentinel sits behind every payload item; so once some worker
\* has dequeued a sentinel, no payload item is left in the queue, every
\* payload item put has been dequeued by some worker, and without a limit
\* these are all the accepted elements of the source.
C19_SentinelsBehindPayloads ==
    /\ SentinelsLast(put_log)
    /\ SentinelsLast(queue)
    /\ (\E w \in Workers : Count(got_log[w], None) >= 1)
       => /\ Payloads(queue) = 0
          /\ SumOver([w \in Workers |-> Payloads(got_log[w])], Workers)
                = Len(PayloadsPut)
          /\ n = NoLimit => PayloadsPut = Accepted

C19_Witness ==
    /\ \E w \in Workers : wpc[w] = "done" /\ got_log[w] = <<1, None>>
    /\ \E w \in Workers : wpc[w] = "process" /\ result[w] = 2
    /\ queue = <<None>>
    /\ n = NoLimit

\* number of func calls of worker w that returned
Returned(w) == Len(processed[w]) - (IF func_failed[w] THEN 1 ELSE 0)

\* C20: the queue's unfinished-task counter always equals the number of
\* entries ever put (sentinels included) minus the number of func calls that
\* returned; no task_done is made for a sentinel, so when the enqueuer and
\* every worker have exited gracefully the counter equals the n_workers
\* sentinels put, which is not zero when n_workers >= 1.
C20_UnfinishedTasks ==
    /\ unfinished_tasks
          = Len(put_log) - SumOver([w \in Workers |-> Returned(w)], Workers)
    /\ (epc = "done" /\ \A w \in Workers : wpc[w] = "done")
       => /\ unfinished_tasks = n_workers
          /\ unfinished_tasks = SentinelsPut

C20_Witness ==
    /\ epc = "done"
    /\ \A w \in Workers : wpc[w] = "done" /\ Len(processed[w]) = 1
    /\ Cardinality(Workers) = 2
    /\ n_workers = 2
    /\ unfinished_tasks = 2
====
